---- MODULE Spec2Model ----
(***************************************************************************)
(* State-machine model of FragmentClient (src/bot.py): the headless fetch  *)
(* context, the headful login context, the code cache, the session file    *)
(* and the fetch lock, driven by concurrently running asyncio handlers.    *)
(*                                                                         *)
(* Every handler is a task.  A task runs atomically from one await to the  *)
(* next (asyncio is single threaded); the engine call a task awaits takes  *)
(* effect in the step that resumes the task.  An engine call on a closed   *)
(* browser, context or page fails with a non-timeout error.                *)
(***************************************************************************)
EXTENDS Integers, Sequences, FiniteSets, TLC

\* ---------------------------------------------------------------- bounds
NTasks   == 3      \* handlers that can be in flight at the same time
NKeys    == 2      \* distinct phone numbers asked for
MaxCalls == 3      \* public operations started in one behaviour of Spec
MaxObj   == 5      \* engine handles (browser, context, page) alive at once
MaxTime  == 1      \* clock ticks
MaxTTL   == 1      \* largest ttl passed to get_code
MaxPar   == 2      \* handlers in flight at the same time under Spec, SpecFetch
MaxFetchCalls == 4 \* operations started in one behaviour of SpecFetch
MaxSaveCalls  == 4 \* operations started in one behaviour of SpecSave
MaxSavePar    == 3 \* handlers in flight at the same time under SpecSave
MaxLiveCalls  == 3 \* operations started in one behaviour of SpecLive
MaxLivePar    == 2 \* handlers in flight at the same time under SpecLive
MaxRaw   == 4      \* characters of free text at the start of a message
MaxPad   == 13     \* digits that may follow the free text

\* --------------------------------------------------- program constants
MinLocal  == 3     \* line 69: shortest digit run that gets the 888 prefix
MaxLocal  == 15    \* line 69: longest digit run that gets the 888 prefix
MinKeyLen == 7     \* line 71: shortest valid key

Tasks == 1..NTasks
Keys  == 1..NKeys
TTLs  == 0..MaxTTL
Objs  == 1..MaxObj

NoCode == "none"          \* Python None / empty code
Codes  == {"c"}           \* a 5-6 digit run found in the page text

VARIABLES
  task,      \* per handler: operation, position, locals, result
  objs,      \* engine handles: browsers, contexts, pages
  hb, hc,    \* _headless_browser, _headless_ctx   (0 = None)
  lb, lc,    \* _login_browser, _login_ctx         (0 = None)
  lock,      \* holder of _lock (0 = free)
  waiters,   \* FIFO queue of tasks waiting for _lock
  cache,     \* _cache: key -> (ts, code)
  file,      \* fragment_state.json: 0 = absent, v > 0 = saved state v
  now,       \* time.time()
  calls,     \* history: operations started
  ver,       \* history: session states written so far
  epochCtx,  \* history: fetch contexts created since the last session change
  barred,    \* history: keys cached before a disconnect, not scraped since
  committed, \* history: session state committed by the last successful save
  dup,       \* history: a key was scraped twice by calls that overlapped
  ev,        \* history: the call or return the last step made, if any
  norm       \* on_text_number: the text received and what normalizing made of it

clientVars == <<task, objs, hb, hc, lb, lc, lock, waiters, cache, file, now,
                calls, ver, epochCtx, barred, committed, dup, ev>>

vars == <<task, objs, hb, hc, lb, lc, lock, waiters, cache, file, now,
          calls, ver, epochCtx, barred, committed, dup, ev, norm>>

\* ------------------------------------------------------- engine handles
FreeRec   == [kind |-> "free",   par |-> 0, sess |-> 0, hl |-> FALSE]
ClosedRec == [kind |-> "closed", par |-> 0, sess |-> 0, hl |-> FALSE]

BrowserRec(headless) == [kind |-> "browser", par |-> 0, sess |-> 0, hl |-> headless]
CtxRec(b, s)         == [kind |-> "ctx",     par |-> b, sess |-> s, hl |-> FALSE]
PageRec(c)           == [kind |-> "page",    par |-> c, sess |-> 0, hl |-> FALSE]

IsOpen(O, i) == i # 0 /\ O[i].kind \in {"browser", "ctx", "page"}

\* close(): closes the handle and everything opened from it
CloseObj(O, i) ==
  [j \in Objs |->
     IF IsOpen(O, j) /\ ( j = i
                          \/ O[j].par = i
                          \/ (O[j].par # 0 /\ O[O[j].par].par = i) )
     THEN ClosedRec ELSE O[j]]

\* the handle a successful launch / new_context / new_page returns (0: none left)
Alloc(O) ==
  IF \E j \in Objs : O[j].kind = "free"
  THEN CHOOSE j \in Objs : O[j].kind = "free" /\ \A m \in Objs : O[m].kind = "free" => j <= m
  ELSE 0

\* handles still referenced by a slot or by a local of a running handler
Refs(tk, b1, c1, b2, c2) ==
  {b1, c1, b2, c2} \cup {tk[t].tgt : t \in Tasks} \cup {tk[t].page : t \in Tasks}

\* a closed handle nobody references any more is forgotten
Collect(O, refs) ==
  [j \in Objs |-> IF O[j].kind = "closed" /\ j \notin refs THEN FreeRec ELSE O[j]]

\* ---------------------------------------------------------------- cache
NoEntry == [has |-> FALSE, ts |-> 0, code |-> NoCode, sess |-> 0]
Entry(ts, code, sess) == [has |-> TRUE, ts |-> ts, code |-> code, sess |-> sess]
EmptyCache == [k \in Keys |-> NoEntry]

\* get_code, the cache test of lines 203-205 with '<' for '<='
ServeFromCache_Strict(force, e, n, ttl) ==
  ~force /\ e.has /\ (n - e.ts < ttl) /\ e.code # NoCode

\* get_code, the cache test of lines 203-205 without 'if not force_refresh'
ServeFromCache_IgnoreForce(force, e, n, ttl) ==
  e.has /\ (n - e.ts <= ttl) /\ e.code # NoCode

\* get_code lines 203-205: if not force_refresh: hit and (now - hit[0] <= ttl) and hit[1]
ServeFromCache(force, e, n, ttl) ==
  ~force /\ e.has /\ (n - e.ts <= ttl) /\ e.code # NoCode

\* ----------------------------------------------------------------- lock
\* asyncio.Lock.acquire without suspension, the lock never checked
LockAvailable_NoExclusion(lk, ws) == TRUE

\* async with self._lock (line 214): acquired at once iff unlocked and nobody queued
LockAvailable(lk, ws) == lk = 0 /\ ws = <<>>

\* the lock acquired without 'async with': an exception leaves it with its holder
LockAfterRaise_Kept(t) == t

\* async with self._lock (line 214): __aexit__ releases the lock when an exception
\* leaves the block
LockAfterRaise(t) == 0

\* ---------------------------------------------------------------- tasks
IdleTask ==
  [op |-> "none", pc |-> "idle", st |-> 0, key |-> 1,
   tgt |-> 0, page |-> 0, ust |-> FALSE, code |-> NoCode,
   psess |-> 0, commAt |-> 0, seen |-> FALSE, pre |-> {}]

\* what a step shows to the caller: a get_code call (with the cache entry it
\* found) and/or the value a public operation returned
NoEv ==
  [kind |-> "none", atcall |-> FALSE,
   t |-> 0, op |-> "none", key |-> 1, ttl |-> 0, force |-> FALSE,
   has |-> FALSE, age |-> 0, scode |-> NoCode,
   hint |-> "", rcode |-> NoCode, ok |-> FALSE, msg |-> "", bad |-> FALSE,
   cclr |-> TRUE]

\* get_code returning CodeResult(digits, code, url, hint)
RetCode(t, hint, code) ==
  [NoEv EXCEPT !.kind = "ret", !.t = t, !.op = "get", !.key = task[t].key,
               !.hint = hint, !.rcode = code]

\* an exception leaving get_code
Raised(t) == RetCode(t, "RAISED", NoCode)

\* a session operation returning (ok, message)
RetMsg(t, op, ok, msg) ==
  [NoEv EXCEPT !.kind = "ret", !.t = t, !.op = op, !.ok = ok, !.msg = msg]

InFlightGet(t) == task[t].op = "get" /\ task[t].pc # "idle"

\* positions inside 'async with self._lock' (lines 215-250)
ScrapePcs == {"newpage", "goto", "close_to", "settle", "waitfn", "eval", "close"}
InScrape(t) == task[t].op = "get" /\ task[t].pc \in ScrapePcs

\* positions at which the page has been opened and navigation issued
NavPcs == ScrapePcs \ {"newpage"}

\* positions at which the page has been opened and navigated to the code URL
LoadedPcs == {"settle", "waitfn", "eval", "close"}

\* ------------------------------------------------ normalize_to_888_digits
\* a text is a sequence of characters; '8' and '0' stand for the digits
\* (8 and any other), '+' and ' ' for the characters \D removes
Digits == {"8", "0"}
Chars  == Digits \cup {"+", " "}

Prefix888 == <<"8", "8", "8">>

\* None
Invalid == [ok |-> FALSE, d |-> <<>>]

IsDigit(c) == c \in Digits

\* digits.startswith("888")
StartsWith888(d) == Len(d) >= 3 /\ SubSeq(d, 1, 3) = Prefix888

\* lines 63-73 with the test of line 68 dropped: the prefix is added to every
\* digit run of 3 to 15 digits
normalize_to_888_digits_AlwaysPrefix(s) ==
  IF s = <<>> THEN Invalid
  ELSE LET digits == SelectSeq(s, IsDigit) IN
       IF digits = <<>> THEN Invalid
       ELSE LET d2 == IF MinLocal <= Len(digits) /\ Len(digits) <= MaxLocal
                      THEN Prefix888 \o digits
                      ELSE digits
            IN IF ~StartsWith888(d2) \/ Len(d2) < MinKeyLen
               THEN Invalid
               ELSE [ok |-> TRUE, d |-> d2]

\* lines 58-73
normalize_to_888_digits(s) ==
  IF s = <<>> THEN Invalid
  ELSE LET digits == SelectSeq(s, IsDigit) IN
       IF digits = <<>> THEN Invalid
       ELSE LET d2 == IF ~StartsWith888(digits)
                         /\ MinLocal <= Len(digits) /\ Len(digits) <= MaxLocal
                      THEN Prefix888 \o digits
                      ELSE digits
            IN IF ~StartsWith888(d2) \/ Len(d2) < MinKeyLen
               THEN Invalid
               ELSE [ok |-> TRUE, d |-> d2]

\* the texts a message may carry: up to MaxRaw characters, then up to MaxPad zeros
Zeros(n) == [i \in 1..n |-> "0"]
RawTexts ==
  {r \o Zeros(n) : r \in UNION {[1..m -> Chars] : m \in 0..MaxRaw}, n \in 0..MaxPad}

\* no text received
NoNorm == [pc |-> "none", raw |-> <<>>, key |-> Invalid, again |-> Invalid]

\* ----------------------------------------------------------------- Init
\* the state after FragmentClient.__init__ and main()'s frag.start()
Init ==
  /\ norm = NoNorm
  /\ task = [t \in Tasks |-> IdleTask]
  /\ objs = [j \in Objs |-> FreeRec]
  /\ hb = 0 /\ hc = 0 /\ lb = 0 /\ lc = 0
  /\ lock = 0 /\ waiters = <<>>
  /\ cache = EmptyCache
  /\ file = 0
  /\ now = 0
  /\ calls = 0 /\ ver = 0 /\ epochCtx = 0 /\ barred = {} /\ committed = 0
  /\ dup = FALSE
  /\ ev = NoEv

Finish(O) == objs' = Collect(O, Refs(task', hb', hc', lb', lc'))

\* a new handler runs in the first free task slot (idle slots are all alike)
CanStart(t) ==
  /\ task[t].pc = "idle"
  /\ \A u \in Tasks : task[u].pc = "idle" => t <= u

\* ------------------------------------------------------------- get_code
\* lines 214-215: async with self._lock, then self._headless_ctx.new_page() is issued
EnterScrape(t, r, hcv) ==
  IF LockAvailable(lock, waiters)
  THEN /\ lock' = t
       /\ waiters' = waiters
       /\ task' = [task EXCEPT ![t] = [r EXCEPT !.pc = "newpage", !.tgt = hcv,
                                                !.commAt = committed]]
       /\ barred' = barred \ {r.key}
  ELSE /\ lock' = lock
       /\ waiters' = Append(waiters, t)
       /\ task' = [task EXCEPT ![t] = [r EXCEPT !.pc = "lockwait", !.tgt = 0]]
       /\ barred' = barred

\* lines 197-214: entry, cache test, _ensure_headless up to its first await
GetCodeCall(t, k, ttl, force) ==
  /\ CanStart(t)
  /\ calls' = calls + 1
  /\ LET e  == cache[k]
         r0 == [IdleTask EXCEPT
                  !.op = "get", !.key = k,
                  !.seen = \E u \in Tasks \ {t} :
                              InFlightGet(u) /\ task[u].key = k /\ task[u].pc \in LoadedPcs]
         e0 == [NoEv EXCEPT
                  !.kind = "call", !.atcall = TRUE,
                  !.t = t, !.op = "get", !.key = k, !.ttl = ttl,
                  !.force = force, !.has = e.has,
                  !.age = IF e.has THEN now - e.ts ELSE 0, !.scode = e.code]
     IN IF ServeFromCache(force, e, now, ttl)
        THEN /\ task' = task
             /\ ev' = [e0 EXCEPT !.kind = "ret", !.hint = "cached", !.rcode = e.code,
                                 !.bad = (k \in barred)]
             /\ UNCHANGED <<lock, waiters, barred>>
        ELSE /\ ev' = e0
             /\ IF hc # 0
                THEN EnterScrape(t, r0, hc)
                ELSE /\ task' = [task EXCEPT ![t] = [r0 EXCEPT !.pc = "launch"]]
                     /\ UNCHANGED <<lock, waiters, barred>>
  /\ UNCHANGED <<hb, hc, lb, lc, cache, file, now, norm, ver, epochCtx, committed, dup>>
  /\ Finish(objs)

\* line 127 resumes: self._headless_browser = await launch(headless=True); lines 128-131 issued
GetLaunch(t) ==
  /\ task[t].op = "get" /\ task[t].pc = "launch"
  /\ UNCHANGED <<hc, lb, lc, lock, waiters, cache, file, now, norm, calls, ver, epochCtx,
                 barred, committed, dup>>
  /\ \/ /\ Alloc(objs) # 0
        /\ LET b == Alloc(objs) IN
           /\ hb' = b
           /\ task' = [task EXCEPT ![t] = [@ EXCEPT !.pc = "newctx", !.tgt = b,
                                                    !.ust = (file # 0)]]
           /\ ev' = NoEv
           /\ Finish([objs EXCEPT ![b] = BrowserRec(TRUE)])
     \/ /\ task' = [task EXCEPT ![t] = IdleTask]
        /\ ev' = RetCode(t, "browser_not_ready", NoCode)
        /\ hb' = hb
        /\ Finish(objs)

\* lines 129/131 resume: self._headless_ctx = await new_context(...); then lines 214-215
GetNewCtx(t) ==
  /\ task[t].op = "get" /\ task[t].pc = "newctx"
  /\ UNCHANGED <<hb, lb, lc, cache, file, now, norm, calls, ver, committed, dup>>
  /\ \/ /\ IsOpen(objs, task[t].tgt)
        /\ task[t].ust => file # 0
        /\ Alloc(objs) # 0
        /\ LET c == Alloc(objs) IN
           /\ hc' = c
           /\ epochCtx' = IF epochCtx < 2 THEN epochCtx + 1 ELSE 2
           /\ EnterScrape(t, [task[t] EXCEPT !.ust = FALSE], c)
           /\ ev' = NoEv
           /\ Finish([objs EXCEPT ![c] = CtxRec(task[t].tgt,
                                                IF task[t].ust THEN file ELSE 0)])
     \/ /\ task' = [task EXCEPT ![t] = IdleTask]
        /\ ev' = RetCode(t, "browser_not_ready", NoCode)
        /\ UNCHANGED <<hc, epochCtx, lock, waiters, barred>>
        /\ Finish(objs)

\* line 214 resumes for the first queued task once the lock is free; line 215 issued
GetLockWait(t) ==
  /\ task[t].op = "get" /\ task[t].pc = "lockwait"
  /\ lock = 0 /\ waiters # <<>> /\ Head(waiters) = t
  /\ waiters' = Tail(waiters)
  /\ IF hc = 0
     THEN \* None.new_page: AttributeError leaves the async with block
          /\ task' = [task EXCEPT ![t] = IdleTask]
          /\ ev' = Raised(t)
          /\ lock' = LockAfterRaise(t)
          /\ barred' = barred
     ELSE /\ task' = [task EXCEPT ![t] = [@ EXCEPT !.pc = "newpage", !.tgt = hc,
                                                   !.commAt = committed]]
          /\ ev' = NoEv
          /\ lock' = t
          /\ barred' = barred \ {task[t].key}
  /\ UNCHANGED <<hb, hc, lb, lc, cache, file, now, norm, calls, ver, epochCtx, committed, dup>>
  /\ Finish(objs)

\* line 215 resumes: page = await new_page(); line 217 goto issued
GetNewPage(t) ==
  /\ task[t].op = "get" /\ task[t].pc = "newpage"
  /\ UNCHANGED <<hb, hc, lb, lc, waiters, cache, file, now, norm, calls, ver, epochCtx,
                 barred, committed, dup>>
  /\ \/ /\ IsOpen(objs, task[t].tgt)
        /\ Alloc(objs) # 0
        /\ LET p == Alloc(objs) IN
           /\ task' = [task EXCEPT ![t] = [@ EXCEPT !.pc = "goto", !.tgt = 0, !.page = p,
                                                    !.psess = objs[task[t].tgt].sess]]
           /\ Finish([objs EXCEPT ![p] = PageRec(task[t].tgt)])
        /\ ev' = NoEv
        /\ lock' = lock
     \/ \* new_page fails outside any try: the exception leaves get_code
        /\ task' = [task EXCEPT ![t] = IdleTask]
        /\ ev' = Raised(t)
        /\ lock' = LockAfterRaise(t)
        /\ Finish(objs)

\* line 217 resumes: goto returned, timed out (218-220) or failed otherwise
GetGoto(t) ==
  /\ task[t].op = "get" /\ task[t].pc = "goto"
  /\ UNCHANGED <<hb, hc, lb, lc, waiters, cache, file, now, norm, calls, ver, epochCtx,
                 barred, committed>>
  /\ \/ /\ IsOpen(objs, task[t].page)
        /\ task' = [u \in Tasks |->
              IF u = t
              THEN [task[t] EXCEPT !.pc = "settle"]
              ELSE IF InFlightGet(u) /\ task[u].key = task[t].key
                   THEN [task[u] EXCEPT !.seen = TRUE]
                   ELSE task[u]]
        /\ dup' = (dup \/ task[t].seen)
        /\ ev' = NoEv
        /\ lock' = lock
     \/ /\ IsOpen(objs, task[t].page)
        /\ task' = [task EXCEPT ![t] = [@ EXCEPT !.pc = "close_to"]]
        /\ dup' = dup
        /\ ev' = NoEv
        /\ lock' = lock
     \/ \* not a PWTimeout: propagates, the page is not closed
        /\ task' = [task EXCEPT ![t] = IdleTask]
        /\ dup' = dup
        /\ ev' = Raised(t)
        /\ lock' = LockAfterRaise(t)
  /\ Finish(objs)

\* the hint with 'no_code_visible' returned for a navigation timeout as well
NavTimeoutHint_NoCodeVisible == "no_code_visible"

\* line 221: the hint returned when page.goto timed out
NavTimeoutHint == "timeout_opening_code_page"

\* lines 219-221: page.close() done, return CodeResult(digits, None, url, hint)
GetCloseTimeout(t) ==
  /\ task[t].op = "get" /\ task[t].pc = "close_to"
  /\ task' = [task EXCEPT ![t] = IdleTask]
  /\ ev' = RetCode(t, NavTimeoutHint, NoCode)
  /\ lock' = 0
  /\ UNCHANGED <<hb, hc, lb, lc, waiters, cache, file, now, norm, calls, ver, epochCtx,
                 barred, committed, dup>>
  /\ Finish(CloseObj(objs, task[t].page))

\* line 225 resumes: wait_for_timeout(800) done or failed (243-244)
GetSettle(t) ==
  /\ task[t].op = "get" /\ task[t].pc = "settle"
  /\ \/ /\ IsOpen(objs, task[t].page)
        /\ task' = [task EXCEPT ![t] = [@ EXCEPT !.pc = "waitfn"]]
     \/ task' = [task EXCEPT ![t] = [@ EXCEPT !.pc = "close", !.code = NoCode]]
  /\ ev' = NoEv
  /\ UNCHANGED <<hb, hc, lb, lc, lock, waiters, cache, file, now, norm, calls, ver, epochCtx,
                 barred, committed, dup>>
  /\ Finish(objs)

\* line 226 resumes: wait_for_function found the pattern, timed out (241) or failed (243)
GetWaitFn(t) ==
  /\ task[t].op = "get" /\ task[t].pc = "waitfn"
  /\ \/ /\ IsOpen(objs, task[t].page)
        /\ task' = [task EXCEPT ![t] = [@ EXCEPT !.pc = "eval"]]
     \/ task' = [task EXCEPT ![t] = [@ EXCEPT !.pc = "close", !.code = NoCode]]
  /\ ev' = NoEv
  /\ UNCHANGED <<hb, hc, lb, lc, lock, waiters, cache, file, now, norm, calls, ver, epochCtx,
                 barred, committed, dup>>
  /\ Finish(objs)

\* lines 237-240: evaluate returned the text, re.search finds a code or not; or failed (243)
GetEval(t) ==
  /\ task[t].op = "get" /\ task[t].pc = "eval"
  /\ \/ /\ IsOpen(objs, task[t].page)
        /\ \E c \in Codes \cup {NoCode} :
             task' = [task EXCEPT ![t] = [@ EXCEPT !.pc = "close", !.code = c]]
     \/ task' = [task EXCEPT ![t] = [@ EXCEPT !.pc = "close", !.code = NoCode]]
  /\ ev' = NoEv
  /\ UNCHANGED <<hb, hc, lb, lc, lock, waiters, cache, file, now, norm, calls, ver, epochCtx,
                 barred, committed, dup>>
  /\ Finish(objs)

\* line 249 writing only when a code was found
StoreResult_OnlyCodes(c, k, ts, code, sess) ==
  IF code # NoCode THEN [c EXCEPT ![k] = Entry(ts, code, sess)] ELSE c

\* line 249: self._cache[digits] = (time.time(), code)
StoreResult(c, k, ts, code, sess) == [c EXCEPT ![k] = Entry(ts, code, sess)]

\* line 250: "ok" if code else "no_code_visible"
ResultHint(code) == IF code # NoCode THEN "ok" ELSE "no_code_visible"

\* lines 245-250: page.close() done, cache written, result returned, lock released
GetClose(t) ==
  /\ task[t].op = "get" /\ task[t].pc = "close"
  /\ cache' = StoreResult(cache, task[t].key, now, task[t].code, task[t].psess)
  /\ task' = [task EXCEPT ![t] = IdleTask]
  /\ ev' = RetCode(t, ResultHint(task[t].code), task[t].code)
  /\ lock' = 0
  /\ UNCHANGED <<hb, hc, lb, lc, waiters, file, now, norm, calls, ver, epochCtx,
                 barred, committed, dup>>
  /\ Finish(CloseObj(objs, task[t].page))

\* get_code resuming from one of its awaits
GetStep(t) ==
  \/ GetLaunch(t)
  \/ GetNewCtx(t)
  \/ GetLockWait(t)
  \/ GetNewPage(t)
  \/ GetGoto(t)
  \/ GetCloseTimeout(t)
  \/ GetSettle(t)
  \/ GetWaitFn(t)
  \/ GetEval(t)
  \/ GetClose(t)

\* ------------------------------------------------ closing the contexts
Slots == [lc |-> lc, lb |-> lb, hc |-> hc, hb |-> hb]

\* The chains of guarded close() calls: save_headful_session 158-171,
\* disconnect 178-189, login_cancel 348-353, start_headful_login 145-150.
\* Stage 1 closes _login_ctx, 2 _login_browser, 3 _headless_ctx, 4 _headless_browser;
\* a stage whose slot is None does not suspend.  Adv runs from stage k to the next
\* close() that is awaited (st, tgt) or to the end of the chain (st = 5).
RECURSIVE Adv(_, _, _)
Adv(op, k, s) ==
  IF k = 1 THEN
    IF s.lc # 0 THEN [st |-> 1, tgt |-> s.lc, s |-> s] ELSE Adv(op, 2, s)
  ELSE IF k = 2 THEN
    IF s.lb # 0 THEN [st |-> 2, tgt |-> s.lb, s |-> s] ELSE Adv(op, 3, s)
  ELSE IF k = 3 THEN
    IF op \in {"cancel", "login"} THEN Adv(op, 5, s)
    ELSE LET s2 == IF op = "save" THEN [s EXCEPT !.lc = 0, !.lb = 0] ELSE s
         IN IF s2.hc # 0 THEN [st |-> 3, tgt |-> s2.hc, s |-> s2] ELSE Adv(op, 4, s2)
  ELSE IF k = 4 THEN
    IF s.hb # 0 THEN [st |-> 4, tgt |-> s.hb, s |-> s] ELSE Adv(op, 5, s)
  ELSE
    [st |-> 5, tgt |-> 0,
     s |-> IF op = "save" THEN [s EXCEPT !.hc = 0, !.hb = 0]
           ELSE IF op = "disc" THEN [lc |-> 0, lb |-> 0, hc |-> 0, hb |-> 0]
           ELSE [s EXCEPT !.lc = 0, !.lb = 0]]

\* run handler t (record r) from stage k of its chain, the handles being O, the
\* slots s, the session file f; cm and ep are the history values before the end
ChainGo(t, r, k, O, s, f, cm, ep) ==
  LET a == Adv(r.op, k, s) IN
  /\ lc' = a.s.lc /\ lb' = a.s.lb /\ hc' = a.s.hc /\ hb' = a.s.hb
  /\ IF a.st < 5
     THEN /\ task' = [task EXCEPT ![t] = [r EXCEPT !.pc = "chain", !.st = a.st,
                                                   !.tgt = a.tgt, !.page = 0]]
          /\ ev' = NoEv
          /\ cache' = cache /\ file' = f /\ committed' = cm /\ epochCtx' = ep
          /\ barred' = barred
     ELSE /\ task' = [task EXCEPT ![t] = IdleTask]
          /\ IF r.op = "save"
             THEN \* lines 172-173
                  /\ cache' = EmptyCache /\ file' = f
                  /\ committed' = f /\ epochCtx' = 0 /\ barred' = barred
                  /\ ev' = [RetMsg(t, "save", TRUE, "saved") EXCEPT
                              !.cclr = (cache' = EmptyCache)]
             ELSE IF r.op = "disc"
             THEN \* lines 190-194
                  /\ cache' = EmptyCache /\ file' = 0
                  /\ committed' = 0 /\ epochCtx' = 0 /\ barred' = barred \cup r.pre
                  /\ ev' = RetMsg(t, "disc", TRUE, "disconnected")
             ELSE IF r.op = "cancel"
             THEN \* lines 352-355
                  /\ cache' = cache /\ file' = f /\ committed' = cm /\ epochCtx' = ep
                  /\ barred' = barred
                  /\ ev' = RetMsg(t, "cancel", TRUE, "cancelled")
             ELSE \* lines 149-151
                  /\ cache' = cache /\ file' = f /\ committed' = cm /\ epochCtx' = ep
                  /\ barred' = barred
                  /\ ev' = RetMsg(t, "login", FALSE, "cannot_open")
  /\ Finish(O)

\* a close() of the chain done; on to the next stage
ChainStep(t) ==
  /\ task[t].pc = "chain"
  /\ ChainGo(t, task[t], task[t].st + 1, CloseObj(objs, task[t].tgt), Slots,
             file, committed, epochCtx)
  /\ UNCHANGED <<lock, waiters, now, norm, calls, ver, dup>>

\* -------------------------------------------------- start_headful_login
\* lines 135-139: start(), 'already open' test, launch(headless=False) issued
LoginCall(t) ==
  /\ CanStart(t)
  /\ calls' = calls + 1
  /\ IF lb # 0
     THEN /\ task' = task
          /\ ev' = RetMsg(t, "login", TRUE, "already_open")
     ELSE /\ task' = [task EXCEPT ![t] = [IdleTask EXCEPT !.op = "login",
                                                          !.pc = "l_launch"]]
          /\ ev' = NoEv
  /\ UNCHANGED <<hb, hc, lb, lc, lock, waiters, cache, file, now, norm, ver, epochCtx,
                 barred, committed, dup>>
  /\ Finish(objs)

\* lines 144-151: the except branch, from its first guarded close()
LoginFail(t) ==
  /\ ChainGo(t, task[t], 1, objs, Slots, file, committed, epochCtx)
  /\ UNCHANGED <<lock, waiters, now, norm, calls, ver, dup>>

\* line 139 resumes: self._login_browser = await launch(headless=False); line 140 issued
LoginLaunch(t) ==
  /\ task[t].op = "login" /\ task[t].pc = "l_launch"
  /\ \/ /\ Alloc(objs) # 0
        /\ LET b == Alloc(objs) IN
           /\ lb' = b
           /\ task' = [task EXCEPT ![t] = [@ EXCEPT !.pc = "l_newctx", !.tgt = b]]
        /\ ev' = NoEv
        /\ UNCHANGED <<hb, hc, lc, lock, waiters, cache, file, now, norm, calls, ver,
                       epochCtx, barred, committed, dup>>
        /\ Finish([objs EXCEPT ![Alloc(objs)] = BrowserRec(FALSE)])
     \/ LoginFail(t)

\* line 140 resumes: self._login_ctx = await new_context(); line 141 issued
LoginNewCtx(t) ==
  /\ task[t].op = "login" /\ task[t].pc = "l_newctx"
  /\ \/ /\ IsOpen(objs, task[t].tgt)
        /\ Alloc(objs) # 0
        /\ LET c == Alloc(objs) IN
           /\ lc' = c
           /\ task' = [task EXCEPT ![t] = [@ EXCEPT !.pc = "l_newpage", !.tgt = c]]
        /\ ev' = NoEv
        /\ UNCHANGED <<hb, hc, lb, lock, waiters, cache, file, now, norm, calls, ver,
                       epochCtx, barred, committed, dup>>
        /\ Finish([objs EXCEPT ![Alloc(objs)] = CtxRec(task[t].tgt, 0)])
     \/ LoginFail(t)

\* line 141 resumes: page = await new_page(); line 142 goto issued.  The login
\* page is never closed by itself and no handle to it outlives the call: it is
\* open exactly while its context is, and takes no entry of objs.
LoginNewPage(t) ==
  /\ task[t].op = "login" /\ task[t].pc = "l_newpage"
  /\ \/ /\ IsOpen(objs, task[t].tgt)
        /\ task' = [task EXCEPT ![t] = [@ EXCEPT !.pc = "l_goto"]]
        /\ ev' = NoEv
        /\ UNCHANGED <<hb, hc, lb, lc, lock, waiters, cache, file, now, norm, calls, ver,
                       epochCtx, barred, committed, dup>>
        /\ Finish(objs)
     \/ LoginFail(t)

\* line 142 resumes: goto done, return (True, 'opened'); or any exception
LoginGoto(t) ==
  /\ task[t].op = "login" /\ task[t].pc = "l_goto"
  /\ \/ /\ IsOpen(objs, task[t].tgt)
        /\ task' = [task EXCEPT ![t] = IdleTask]
        /\ ev' = RetMsg(t, "login", TRUE, "opened")
        /\ UNCHANGED <<hb, hc, lb, lc, lock, waiters, cache, file, now, norm, calls, ver,
                       epochCtx, barred, committed, dup>>
        /\ Finish(objs)
     \/ LoginFail(t)

\* start_headful_login resuming from one of its awaits
LoginStep(t) ==
  \/ LoginLaunch(t)
  \/ LoginNewCtx(t)
  \/ LoginNewPage(t)
  \/ LoginGoto(t)

\* ------------------------------------------------- save_headful_session
\* line 154 without the test: every call goes on to storage_state
HasLoginSession_Untested(c) == TRUE

\* line 154: if not self._login_ctx
HasLoginSession(c) == c # 0

\* lines 154-157: 'no session' test, storage_state(path) issued
SaveCall(t) ==
  /\ CanStart(t)
  /\ calls' = calls + 1
  /\ IF ~HasLoginSession(lc)
     THEN /\ task' = task
          /\ ev' = RetMsg(t, "save", FALSE, "no_session")
     ELSE /\ task' = [task EXCEPT ![t] = [IdleTask EXCEPT !.op = "save",
                                                          !.pc = "s_state", !.tgt = lc]]
          /\ ev' = NoEv
  /\ UNCHANGED <<hb, hc, lb, lc, lock, waiters, cache, file, now, norm, ver, epochCtx,
                 barred, committed, dup>>
  /\ Finish(objs)

\* line 157 resumes: the state file is written, lines 158-173 follow; or line 175
SaveState(t) ==
  /\ task[t].op = "save" /\ task[t].pc = "s_state"
  /\ UNCHANGED <<lock, waiters, now, norm, calls, dup>>
  /\ \/ /\ IsOpen(objs, task[t].tgt)
        /\ ver' = ver + 1
        /\ ChainGo(t, task[t], 1, objs, Slots, ver + 1, 0, 0)
     \/ /\ task' = [task EXCEPT ![t] = IdleTask]
        /\ ev' = RetMsg(t, "save", FALSE, "failed_save")
        /\ UNCHANGED <<hb, hc, lb, lc, cache, file, ver, epochCtx, barred, committed>>
        /\ Finish(objs)

\* ----------------------------------------------------------- disconnect
\* lines 177-194, from entry to the first close() that is awaited
Disconnect(t) ==
  /\ CanStart(t)
  /\ calls' = calls + 1
  /\ ChainGo(t, [IdleTask EXCEPT !.op = "disc",
                    !.pre = {k \in Keys : cache[k].has /\ cache[k].code # NoCode}],
             1, objs, Slots, file, 0, epochCtx)
  /\ UNCHANGED <<lock, waiters, now, norm, ver, dup>>

\* --------------------------------------------------------- login_cancel
\* lines 346-353, from entry to the first close() that is awaited
LoginCancel(t) ==
  /\ CanStart(t)
  /\ calls' = calls + 1
  /\ ChainGo(t, [IdleTask EXCEPT !.op = "cancel"], 1, objs, Slots, file,
             committed, epochCtx)
  /\ UNCHANGED <<lock, waiters, now, norm, ver, dup>>

\* time.time() advancing.  The code reads the clock only to stamp a cache entry
\* and to compare now - ts with ttl, so time is counted while an entry exists.
Tick ==
  /\ now < MaxTime
  /\ \E k \in Keys : cache[k].has
  /\ now' = now + 1
  /\ ev' = NoEv
  /\ UNCHANGED <<task, objs, hb, hc, lb, lc, lock, waiters, cache, file,
                 calls, ver, epochCtx, barred, committed, dup, norm>>

\* fewer than par handlers are in flight and fewer than n operations were started
May(par, n) ==
  /\ Cardinality({t \in Tasks : task[t].pc # "idle"}) < par
  /\ calls < n

\* every operation, any interleaving
Next ==
  \/ \E t \in Tasks, k \in Keys, ttl \in TTLs, force \in BOOLEAN :
        May(MaxPar, MaxCalls) /\ GetCodeCall(t, k, ttl, force)
  \/ \E t \in Tasks : GetStep(t)
  \/ \E t \in Tasks : May(MaxPar, MaxCalls) /\ LoginCall(t)
  \/ \E t \in Tasks : LoginStep(t)
  \/ \E t \in Tasks : May(MaxPar, MaxCalls) /\ SaveCall(t)
  \/ \E t \in Tasks : SaveState(t)
  \/ \E t \in Tasks : May(MaxPar, MaxCalls) /\ Disconnect(t)
  \/ \E t \in Tasks : May(MaxPar, MaxCalls) /\ LoginCancel(t)
  \/ \E t \in Tasks : ChainStep(t)
  \/ Tick

Spec == Init /\ [][Next]_vars

\* fetches of one key and disconnects only, one operation more
NextFetch ==
  \/ \E t \in Tasks, ttl \in TTLs, force \in BOOLEAN :
        May(MaxPar, MaxFetchCalls) /\ GetCodeCall(t, 1, ttl, force)
  \/ \E t \in Tasks : GetStep(t)
  \/ \E t \in Tasks : May(MaxPar, MaxFetchCalls) /\ Disconnect(t)
  \/ \E t \in Tasks : ChainStep(t)
  \/ Tick

SpecFetch == Init /\ [][NextFetch]_vars

\* a login started first, then fetches of one key and saves, one operation more;
\* a save may start while MaxPar other handlers are in flight
NextSave ==
  \/ \E t \in Tasks, ttl \in TTLs, force \in BOOLEAN :
        May(MaxPar, MaxSaveCalls) /\ GetCodeCall(t, 1, ttl, force)
  \/ \E t \in Tasks : GetStep(t)
  \/ \E t \in Tasks : calls = 0 /\ LoginCall(t)
  \/ \E t \in Tasks : LoginStep(t)
  \/ \E t \in Tasks : May(MaxSavePar, MaxSaveCalls) /\ SaveCall(t)
  \/ \E t \in Tasks : SaveState(t)
  \/ \E t \in Tasks : ChainStep(t)

SpecSave == Init /\ [][NextSave]_vars

\* every operation on one key with the clock standing, every handler that can
\* resume does resume: the event loop runs each ready task, and every engine
\* call returns, fails or times out
NextLive ==
  \/ \E t \in Tasks, force \in BOOLEAN :
        May(MaxLivePar, MaxLiveCalls) /\ GetCodeCall(t, 1, 0, force)
  \/ \E t \in Tasks : GetStep(t)
  \/ \E t \in Tasks : May(MaxLivePar, MaxLiveCalls) /\ LoginCall(t)
  \/ \E t \in Tasks : LoginStep(t)
  \/ \E t \in Tasks : May(MaxLivePar, MaxLiveCalls) /\ SaveCall(t)
  \/ \E t \in Tasks : SaveState(t)
  \/ \E t \in Tasks : May(MaxLivePar, MaxLiveCalls) /\ Disconnect(t)
  \/ \E t \in Tasks : May(MaxLivePar, MaxLiveCalls) /\ LoginCancel(t)
  \/ \E t \in Tasks : ChainStep(t)

\* handler t resumes from the await it is suspended at
Resume(t) ==
  \/ GetStep(t)
  \/ LoginStep(t)
  \/ SaveState(t)
  \/ ChainStep(t)

Fairness == \A t \in Tasks : WF_vars(Resume(t))

SpecLive == Init /\ [][NextLive]_vars /\ Fairness

\* -------------------------------------------------------- on_text_number
\* a text message arrives (line 366), the client as constructed
InitNorm ==
  /\ \E s \in RawTexts : norm = [NoNorm EXCEPT !.pc = "text", !.raw = s]
  /\ task = [t \in Tasks |-> IdleTask]
  /\ objs = [j \in Objs |-> FreeRec]
  /\ hb = 0 /\ hc = 0 /\ lb = 0 /\ lc = 0
  /\ lock = 0 /\ waiters = <<>>
  /\ cache = EmptyCache
  /\ file = 0
  /\ now = 0
  /\ calls = 0 /\ ver = 0 /\ epochCtx = 0 /\ barred = {} /\ committed = 0
  /\ dup = FALSE
  /\ ev = NoEv

\* line 367: target = normalize_to_888_digits(m.text or "")
Normalize ==
  /\ norm.pc = "text"
  /\ norm' = [norm EXCEPT !.pc = "key", !.key = normalize_to_888_digits(norm.raw)]
  /\ UNCHANGED clientVars

\* the key sent again as a text (the number shown in the answer, line 370)
NormalizeAgain ==
  /\ norm.pc = "key" /\ norm.key.ok
  /\ norm' = [norm EXCEPT !.pc = "again", !.again = normalize_to_888_digits(norm.key.d)]
  /\ UNCHANGED clientVars

NextNorm ==
  \/ Normalize
  \/ NormalizeAgain

SpecNorm == InitNorm /\ [][NextNorm]_vars

\* ---------------------------------------------------------- properties
\* a login or fetch browser that is open
OpenBrowsers(headless) ==
  {i \in Objs : objs[i].kind = "browser" /\ objs[i].hl = headless}

\* a save or disconnect is between its first close() and its return
SessionChanging ==
  \E t \in Tasks : task[t].op \in {"save", "disc"} /\ task[t].pc = "chain"

\* C1: get_code without force_refresh returns 'cached', with the stored code, iff
\* the cache holds an entry for the key with now - fetchedAt <= ttl and a non-empty
\* code; in every other case the call goes on to a fetch attempt.
C1_CachedIffFresh ==
  (ev.op = "get" /\ ev.atcall /\ ~ev.force) =>
     IF ev.has /\ ev.age <= ev.ttl /\ ev.scode # NoCode
     THEN ev.kind = "ret" /\ ev.hint = "cached" /\ ev.rcode = ev.scode
     ELSE /\ ev.kind = "call" /\ ev.hint = ""
          /\ task[ev.t].op = "get"
          /\ task[ev.t].pc \in {"launch", "lockwait", "newpage"}

\* C1 witness: a hit on an entry whose age is exactly the ttl, after the clock moved
C1_Witness ==
  ev.op = "get" /\ ev.hint = "cached" /\ ~ev.force /\ ev.age = ev.ttl /\ ev.age > 0

\* C2: a get_code call with force_refresh never returns 'cached'; 'cached' is only
\* ever returned by the cache test at the start of a call made without it.
C2_ForceNeverCached ==
  (ev.op = "get" /\ ev.hint = "cached") => (ev.atcall /\ ~ev.force)

\* C2 witness: a forced call that found a fresh, non-empty entry and went on to fetch
C2_Witness ==
  /\ ev.op = "get" /\ ev.kind = "call" /\ ev.force
  /\ ev.has /\ ev.age <= ev.ttl /\ ev.scode # NoCode

\* C3: at most one get_code call is inside the scrape section at any time.
C3_OneScrapeAtATime ==
  Cardinality({t \in Tasks : InScrape(t)}) <= 1

\* C3 witness: one call scrapes while a call for another key waits for the lock
C3_Witness ==
  \E t, u \in Tasks :
    /\ InScrape(t) /\ task[t].pc \in NavPcs
    /\ task[u].op = "get" /\ task[u].pc = "lockwait"
    /\ task[u].key # task[t].key

\* C4: after disconnect() returned, no get_code returns 'cached' for a key that was
\* cached before the disconnect until a scrape of that key started after it.
C4_NoCachedAfterDisconnect ==
  ~(ev.op = "get" /\ ev.hint = "cached" /\ ev.bad)

\* C5: after save_headful_session returned ok the cache is empty, and every scrape
\* started after it runs in a context created from the committed session state.
C5_ScrapeUsesCommittedState ==
  /\ (ev.op = "save" /\ ev.kind = "ret" /\ ev.ok) => (ev.cclr /\ cache = EmptyCache)
  /\ \A t \in Tasks :
       (InScrape(t) /\ task[t].pc \in NavPcs /\ task[t].commAt # 0)
          => task[t].psess = task[t].commAt

\* C6: once a session change is over, every cache entry with a code was scraped
\* under the session state that is current.
C6_CacheUnderCurrentSession ==
  ~SessionChanging =>
     \A k \in Keys :
        (cache[k].has /\ cache[k].code # NoCode) => cache[k].sess = file

\* C7: get_code calls for one key that overlap (each started before the other
\* returned) cause at most one page scrape: one new page navigated to the code URL.
C7_OneScrapePerKey == ~dup

\* C8: at most one login browser is open.
C8_OneLoginBrowser == Cardinality(OpenBrowsers(FALSE)) <= 1

\* C9: between two session changes the fetch context is created at most once.
C9_OneContextPerEpoch == epochCtx <= 1

\* C10: get_code never raises to its caller.
C10_GetCodeNeverRaises == ~(ev.op = "get" /\ ev.hint = "RAISED")

\* the pages that are open
OpenPages == {i \in Objs : objs[i].kind = "page"}

\* C11: every page opened by get_code is closed before the fetch lock is released,
\* on every exit path: a page that is open is the page of the call holding the lock.
C11_PageClosedBeforeRelease ==
  \A i \in OpenPages : lock # 0 /\ task[lock].page = i

C13_MissRecordedOnNavTimeout ==
  (ev.kind = "ret" /\ ev.op = "get" /\ ev.hint = NavTimeoutHint)
     => (cache[ev.key].has /\ cache[ev.key].code = NoCode /\ cache[ev.key].ts = now)

\* no login flow is open, being opened or being closed
NoLoginInProgress ==
  /\ lc = 0 /\ lb = 0
  /\ \A t \in Tasks : task[t].op \notin {"login", "cancel"}

\* a step in which save_headful_session is called
SaveCalled ==
  /\ calls' = calls + 1
  /\ \/ ev'.kind = "ret" /\ ev'.op = "save"
     \/ \E t \in Tasks : task[t].pc = "idle" /\ task'[t].op = "save"

\* C14: save_headful_session called when no login flow is in progress returns
\* ok = false with the 'no session' message at once and changes nothing: session
\* file, cache, fetch slots and login slots are as before the call.
C14_SaveWithoutLoginChangesNothing ==
  [][(NoLoginInProgress /\ SaveCalled)
        => /\ ev'.kind = "ret" /\ ev'.op = "save"
           /\ ~ev'.ok /\ ev'.msg = "no_session"
           /\ UNCHANGED <<file, cache, hb, hc, lb, lc, objs, task>>]_vars

\* C14 witness: the call was refused while a fetch context and a cache entry exist
C14_Witness ==
  /\ ev.kind = "ret" /\ ev.op = "save" /\ ev.msg = "no_session"
  /\ hc # 0 /\ \E k \in Keys : cache[k].has /\ cache[k].code # NoCode

\* the contexts that are open
OpenContexts == {i \in Objs : objs[i].kind = "ctx"}

\* C15: when disconnect() returns, the login and the fetch context are closed and
\* their slots empty, the cache is empty and the session file is absent, in whatever
\* state disconnect was called.
C15_DisconnectLeavesNothing ==
  (ev.kind = "ret" /\ ev.op = "disc")
     => /\ lb = 0 /\ lc = 0 /\ hb = 0 /\ hc = 0
        /\ OpenContexts = {}
        /\ cache = EmptyCache
        /\ file = 0

\* C16: when start_headful_login fails to open the visible browser it returns
\* ok = false with a message and leaves the login state Closed: both login slots
\* are empty and no login browser is open, so a later call opens afresh.
C16_FailedLoginLeavesClosed ==
  (ev.kind = "ret" /\ ev.op = "login" /\ ~ev.ok)
     => /\ ev.msg = "cannot_open"
        /\ lb = 0 /\ lc = 0
        /\ OpenBrowsers(FALSE) = {}

\* the login contexts that are open: contexts of a browser launched with headless=False
OpenLoginContexts(O) ==
  {i \in Objs : O[i].kind = "ctx" /\ O[i].par # 0 /\ ~O[O[i].par].hl}

\* a step made by login_cancel running as handler t: its call or one of its close()
CancelStep(t) ==
  \/ task[t].op = "cancel" /\ task'[t] # task[t]
  \/ task[t].pc = "idle" /\ task'[t].op = "cancel"
  \/ calls' = calls + 1 /\ ev'.kind = "ret" /\ ev'.op = "cancel" /\ ev'.t = t

\* C17: cancelling a login leaves session file, cache and fetch context as they
\* are, and when it returns the login context is closed and the login slots are
\* empty, so that a save issued then finds no login in progress.
C17_CancelClosesLoginOnly ==
  [][\A t \in Tasks :
       CancelStep(t)
          => /\ UNCHANGED <<file, cache, hb, hc, ver>>
             /\ hc # 0 => objs'[hc] = objs[hc]
             /\ (ev'.kind = "ret" /\ ev'.op = "cancel")
                   => /\ lb' = 0 /\ lc' = 0
                      /\ ~HasLoginSession(lc')
                      /\ OpenLoginContexts(objs') = {}]_vars

\* C18: normalize_to_888_digits is idempotent on valid inputs: normalizing a key
\* it returned gives the same key again, never 'invalid'.
C18_NormalizeIdempotent ==
  norm.pc = "again" => (norm.again.ok /\ norm.again = norm.key)

\* C18 witness: a text of a local number with separators got the prefix and
\* lost the separators, and its key was normalized again
C18_Witness ==
  /\ norm.pc = "again"
  /\ ~StartsWith888(SelectSeq(norm.raw, IsDigit))
  /\ Len(norm.raw) > Len(SelectSeq(norm.raw, IsDigit))
  /\ Len(norm.key.d) = Len(SelectSeq(norm.raw, IsDigit)) + 3

\* C19: once navigation succeeded, get_code goes on to its return without raising,
\* whatever the settle delay, the code wait and the extraction do (a timeout of the
\* code wait included); when it returns it has overwritten the key's entry with the
\* current time and the extracted code, empty or not, and the hint is 'ok' exactly
\* when that code is non-empty and 'no_code_visible' otherwise.
C19_ResultRecordedAfterNavigation ==
  [][\A t \in Tasks :
       (task[t].op = "get" /\ task[t].pc \in LoadedPcs /\ task'[t] # task[t])
          => \/ /\ task'[t].op = "get" /\ task'[t].pc \in LoadedPcs
                /\ task'[t].key = task[t].key
                /\ ev'.kind = "none"
                /\ cache' = cache
             \/ /\ task[t].pc = "close" /\ task'[t].pc = "idle"
                /\ ev'.kind = "ret" /\ ev'.op = "get" /\ ev'.t = t
                /\ ev'.key = task[t].key
                /\ ev'.rcode = task[t].code
                /\ ev'.hint = (IF task[t].code # NoCode THEN "ok" ELSE "no_code_visible")
                /\ cache'[task[t].key].has
                /\ cache'[task[t].key].ts = now'
                /\ cache'[task[t].key].code = task[t].code
                /\ \A k \in Keys \ {task[t].key} : cache'[k] = cache[k]]_vars

\* C19 witness: a call that found no code returned 'no_code_visible' and left an
\* entry with an empty code and the current time, the clock having moved
C19_Witness ==
  /\ ev.kind = "ret" /\ ev.op = "get" /\ ev.hint = "no_code_visible"
  /\ cache[ev.key] = Entry(now, NoCode, cache[ev.key].sess)
  /\ now > 0

\* C20: with every engine call returning and every ready handler run, every
\* get_code call returns, every caller queued for the fetch lock leaves the
\* queue, and the lock is released after each acquisition.
C20_EveryCallReturns ==
  /\ \A t \in Tasks : (task[t].op = "get") ~> (task[t].op # "get")
  /\ (lock # 0) ~> (lock = 0)

\* C20 witness: a call holds the lock, its page closed under it by a disconnect,
\* and a second call is queued behind it
C20_Witness ==
  \E t, u \in Tasks :
    /\ lock = t /\ task[t].pc \in NavPcs
    /\ task[u].pc = "lockwait" /\ waiters = <<u>>
    /\ ~IsOpen(objs, task[t].page)

\* C21: no browser is leaked: every browser that is open is the one the
\* _headless_browser or the _login_browser slot refers to, and no step replaces or
\* empties a slot whose browser is still open afterwards.
C21_NoBrowserLeak ==
  [][/\ \A i \in OpenBrowsers(TRUE) \cup OpenBrowsers(FALSE) : i \in {hb, lb}
     /\ (hb # 0 /\ hb' # hb) => ~IsOpen(objs', hb)
     /\ (lb # 0 /\ lb' # lb) => ~IsOpen(objs', lb)]_vars

====
